---- MODULE Spec2Model ----
(***************************************************************************)
(* A model of the defensive-extraction core of the DD-Scripts repository:  *)
(*   - src/GE_Alerts_extract.py: _list_teams_by_keyword,                   *)
(*     _extract_team_handle and find_monitors_for_team;                    *)
(*   - src/datadog_synthetics_export.py (and its twin                      *)
(*     src/synthetic_tests_extractor.py): get_synthetic_tests.             *)
(*                                                                         *)
(* Python strings that the code transforms (keyword, name, handle, query)  *)
(* are sequences of one-character strings.  A Python dict is a function    *)
(* whose DOMAIN is the set of keys present; None, ints, strings and lists  *)
(* that share a slot with other JSON types are wrapped in one-field        *)
(* records so that they stay comparable.                                   *)
(***************************************************************************)
EXTENDS Integers, Sequences, FiniteSets, TLC

VARIABLES
    \* _extract_team_handle as a pure function (SpecResolve)
    rkeyword, rbody, rresult, rpc,
    \* one run of find_monitors_for_team (Spec)
    team_input, lookup, handle, pc, vi, requests, responses, last_err, result,
    lookup_requests,
    \* one run of get_synthetic_tests (SpecFetch)
    fpc, page, all_tests, page_requests, page_responses, fresult,
    \* one synthetic test record put through the normalizer (SpecNormalize)
    nscript, ntest, nrow, npc

rvars == <<rkeyword, rbody, rresult, rpc>>
svars == <<team_input, lookup, handle, pc, vi, requests, responses, last_err, result,
           lookup_requests>>
fvars == <<fpc, page, all_tests, page_requests, page_responses, fresult>>
nvars == <<nscript, ntest, nrow, npc>>
vars == <<rvars, svars, fvars, nvars>>

(***************************************************************************)
(* Bounds of the model.                                                    *)
(***************************************************************************)
MaxKeywordLen == 3
MaxTeams == 2
MaxCandidates == 2
MaxPages == 4
MaxSeconds == 7200
MaxSteps == 2
MaxTimeframes == 2

(***************************************************************************)
(* JSON values.                                                            *)
(***************************************************************************)
None == [none |-> TRUE]
JInt(n) == [int |-> n]
JStr(s) == [str |-> s]
JList(s) == [list |-> s]
EmptyDict == [k \in {} |-> None]

\* bool(v) of a JSON value
Truthy(v) ==
    /\ v # None
    /\ v # JList(<<>>)
    /\ v # JStr(<<>>)
    /\ v # JInt(0)
    /\ v # EmptyDict

\* dict.get(key, default)
Get(d, key, default) == IF key \in DOMAIN d THEN d[key] ELSE default

\* All sequences over S of length at most n.
SeqsUpTo(S, n) == UNION {[1..k -> S] : k \in 0..n}

(***************************************************************************)
(* Python string methods, character by character.                          *)
(***************************************************************************)
Chars == {"A", "a", " ", "\t"}
Whitespace == {" ", "\t"}

\* the upper-case letters the modelled strings use
LowerTable == [A |-> "a", B |-> "b", I |-> "i", L |-> "l", M |-> "m", P |-> "p"]

LowerChar(c) == IF c \in DOMAIN LowerTable THEN LowerTable[c] ELSE c

\* str.lower()
Lower(s) == [k \in 1..Len(s) |-> LowerChar(s[k])]

RECURSIVE LStrip(_)
LStrip(s) == IF s # <<>> /\ Head(s) \in Whitespace THEN LStrip(Tail(s)) ELSE s

RECURSIVE RStrip(_)
RStrip(s) ==
    IF s # <<>> /\ s[Len(s)] \in Whitespace
    THEN RStrip(SubSeq(s, 1, Len(s) - 1))
    ELSE s

\* str.strip(): leading and trailing whitespace removed
Strip(s) == RStrip(LStrip(s))

\* str.replace(" ", "-")
ReplaceSpaces(s) == [k \in 1..Len(s) |-> IF s[k] = " " THEN "-" ELSE s[k]]

(***************************************************************************)
(* _list_teams_by_keyword and _extract_team_handle.                        *)
(***************************************************************************)
\* r.json().get("data", []) or []        (the body of a successful lookup)
ListTeams(body) ==
    LET data == Get(body, "data", JList(<<>>))
    IN  IF data = None \/ data = JList(<<>>) THEN <<>> ELSE data.list

\* keyword.strip().lower().replace(" ", "-")
SynthesizedHandle_NoReplace(keyword) == Lower(Strip(keyword))
SynthesizedHandle(keyword) == ReplaceSpaces(Lower(Strip(keyword)))

\* attrs = t.get("attributes", {}) or {}
LoopAttrs(t) ==
    LET a == Get(t, "attributes", EmptyDict)
    IN  IF a = None \/ a = EmptyDict THEN EmptyDict ELSE a

\* keyword.lower() in (name.lower(), handle.lower())
ExactMatch(keyword, t) ==
    LET attrs == LoopAttrs(t)
        name == Get(attrs, "name", <<>>)
        hndl == Get(attrs, "handle", <<>>)
    IN  Lower(keyword) \in {Lower(name), Lower(hndl)}

Returned(v) == [kind |-> "return", value |-> v]
Raised(e) == [kind |-> "raise", value |-> e]

\* 'NoneType' object has no attribute 'get'
AttributeError == [exc |-> "AttributeError", status |-> 0, query |-> <<>>]

\* teams[0].get("attributes", {}).get("handle", <synthesized>)
FirstHandle_Raw(keyword, teams) ==
    LET a == Get(teams[1], "attributes", EmptyDict)
    IN  IF a = None
        THEN Raised(AttributeError)
        ELSE Returned(Get(a, "handle", keyword))
FirstHandle(keyword, teams) ==
    LET a == Get(teams[1], "attributes", EmptyDict)
    IN  IF a = None
        THEN Raised(AttributeError)
        ELSE Returned(Get(a, "handle", SynthesizedHandle(keyword)))

\* the for loop: the handle of the first record that matches exactly
MatchIndices(keyword, teams) == {k \in 1..Len(teams) : ExactMatch(keyword, teams[k])}

ExtractTeamHandle_LastMatch(keyword, teams) ==
    IF teams = <<>>
    THEN Returned(SynthesizedHandle(keyword))
    ELSE LET ms == MatchIndices(keyword, teams)
         IN  IF ms # {}
             THEN LET m == CHOOSE k \in ms : \A j \in ms : j <= k
                  IN  Returned(Get(LoopAttrs(teams[m]), "handle", <<>>))
             ELSE FirstHandle(keyword, teams)
ExtractTeamHandle(keyword, teams) ==
    IF teams = <<>>
    THEN Returned(SynthesizedHandle(keyword))
    ELSE LET ms == MatchIndices(keyword, teams)
         IN  IF ms # {}
             THEN LET m == CHOOSE k \in ms : \A j \in ms : k <= j
                  IN  Returned(Get(LoopAttrs(teams[m]), "handle", <<>>))
             ELSE FirstHandle(keyword, teams)

(***************************************************************************)
(* Inputs of the resolver: keywords and lookup bodies.                     *)
(***************************************************************************)
Keywords == SeqsUpTo(Chars, MaxKeywordLen)

\* name and handle values a team record may carry
TeamStrings == {<<"a">>, <<"A", " ">>}

TeamAttrs ==
    {EmptyDict}
    \cup {[name |-> n] : n \in TeamStrings}
    \cup {[handle |-> h] : h \in TeamStrings}
    \cup {[name |-> n, handle |-> h] : n \in TeamStrings, h \in TeamStrings}

TeamRecords ==
    {EmptyDict, [attributes |-> None]} \cup {[attributes |-> a] : a \in TeamAttrs}

LookupBodies ==
    {EmptyDict, [data |-> None]}
    \cup {[data |-> JList(ts)] : ts \in SeqsUpTo(TeamRecords, MaxTeams)}

(***************************************************************************)
(* SpecResolve: _extract_team_handle applied to every keyword and body.    *)
(***************************************************************************)
NoResult == [kind |-> "none"]

SIdle ==
    /\ team_input = <<>> /\ lookup = [kind |-> "idle"] /\ handle = <<>>
    /\ pc = "idle" /\ vi = 0 /\ requests = <<>> /\ responses = <<>>
    /\ last_err = None /\ result = [kind |-> "idle"]
    /\ lookup_requests = <<>>

FIdle ==
    /\ fpc = "idle" /\ page = 0 /\ all_tests = <<>>
    /\ page_requests = <<>> /\ page_responses = <<>> /\ fresult = [kind |-> "idle"]

RIdle ==
    /\ rkeyword = <<>> /\ rbody = EmptyDict /\ rresult = NoResult /\ rpc = "idle"

NIdle ==
    /\ nscript = "idle" /\ ntest = EmptyDict /\ nrow = NoResult /\ npc = "idle"

InitResolve ==
    /\ rkeyword \in Keywords
    /\ rbody \in LookupBodies
    /\ rresult = NoResult
    /\ rpc = "call"
    /\ SIdle /\ FIdle /\ NIdle

Resolve ==
    /\ rpc = "call"
    /\ rresult' = ExtractTeamHandle(rkeyword, ListTeams(rbody))
    /\ rpc' = "done"
    /\ UNCHANGED <<rkeyword, rbody, svars, fvars, nvars>>

NextResolve == Resolve

SpecResolve == InitResolve /\ [][NextResolve]_vars

(***************************************************************************)
(* HTTP exchanges.  An answer of the remote end is a record: the network   *)
(* may fail (net = "down"), else a status and a JSON body come back.       *)
(***************************************************************************)
Answer(status, body) == [net |-> "ok", status |-> status, body |-> body]
NetDown == [net |-> "down", status |-> 0, body |-> EmptyDict]

\* an exception of requests: HTTPError carries the status and the URL it was for
HTTPError(status, query) == [exc |-> "HTTPError", status |-> status, query |-> query]
ConnectionError(query) == [exc |-> "ConnectionError", status |-> 0, query |-> query]

\* requests.get(...); r.raise_for_status(); r.json()
RaiseForStatus(answer, query) ==
    IF answer.net = "down"
    THEN Raised(ConnectionError(query))
    ELSE IF answer.status >= 400
         THEN Raised(HTTPError(answer.status, query))
         ELSE Returned(answer.body)

\* datadog_get(url, params={"query": q})
DatadogGet(answer, query) == RaiseForStatus(answer, query)

(***************************************************************************)
(* find_monitors_for_team: the query variants and one pass of the loop.    *)
(***************************************************************************)
TeamColon == <<"t", "e", "a", "m", ":">>
TeamsColon == <<"t", "e", "a", "m", "s", ":">>
Quote == <<"\"">>

\* the four f-strings of lines 40-45
Variants_PluralFirst(h) ==
    << TeamsColon \o h,
       TeamsColon \o Quote \o h \o Quote,
       TeamColon \o h,
       TeamColon \o Quote \o h \o Quote >>
Variants(h) ==
    << TeamColon \o h,
       TeamColon \o Quote \o h \o Quote,
       TeamsColon \o h,
       TeamsColon \o Quote \o h \o Quote >>

\* isinstance(data, dict): a JSON object is a function that is no wrapped value
IsDict(v) == DOMAIN v \cap {"none", "int", "str", "list"} = {}

\* lines 51-56: the candidate list of a successful response
Candidates_TopLevelFirst(data) ==
    IF IsDict(data)
    THEN IF "monitors" \in DOMAIN data
         THEN data["monitors"]
         ELSE IF "data" \in DOMAIN data /\ IsDict(data["data"])
                   /\ "monitors" \in DOMAIN data["data"]
              THEN data["data"]["monitors"]
              ELSE JList(<<>>)
    ELSE JList(<<>>)
Candidates(data) ==
    IF IsDict(data)
    THEN IF "data" \in DOMAIN data /\ IsDict(data["data"])
              /\ "monitors" \in DOMAIN data["data"]
         THEN data["data"]["monitors"]
         ELSE IF "monitors" \in DOMAIN data
              THEN data["monitors"]
              ELSE JList(<<>>)
    ELSE JList(<<>>)

\* candidates or []
OrEmpty(candidates) == IF candidates = None THEN <<>> ELSE candidates.list

\* {"id": m.get("id"), "name": m.get("name")}
Project(m) == [id |-> Get(m, "id", None), name |-> Get(m, "name", None)]

\* line 57: [... for m in (candidates or []) if m.get("id") is not None]
HasId_Truthy(m) == Truthy(Get(m, "id", None))
HasId(m) == Get(m, "id", None) # None
FilterMonitors(candidates) ==
    LET ms == OrEmpty(candidates)
        kept == SelectSeq(ms, HasId)
    IN  [k \in 1..Len(kept) |-> Project(kept[k])]

\* line 61: except HTTPError
CaughtByLoop(e) == e.exc = "HTTPError"

\* line 63: last_err = e
RecordError_KeepFirst(old, e) == IF old = None THEN e ELSE old
RecordError(old, e) == e

\* lines 68-71: the RuntimeError and its message
AggregatedFailure(keyword, h, err) ==
    [exc |-> "RuntimeError",
     msg |-> [team_input |-> keyword, handle |-> h, last_error |-> err]]

\* lines 66-71 and the implicit return None
AfterLoop_AlwaysRaise(keyword, h, err) == Raised(AggregatedFailure(keyword, h, err))
AfterLoop(keyword, h, err) ==
    IF err # None
    THEN Raised(AggregatedFailure(keyword, h, err))
    ELSE Returned(None)

(***************************************************************************)
(* Inputs of find_monitors_for_team.                                       *)
(***************************************************************************)
SearchKeywords == {<<"A", " ", "a">>}

\* the lookup query of line 10 (filter[keyword])
LookupQuery(keyword) == <<"k", "e", "y", "w", "o", "r", "d", "=">> \o keyword

LookupAnswers ==
    {NetDown, Answer(403, EmptyDict)}
    \cup {Answer(200, b) : b \in
            { [data |-> JList(<<>>)],
              [data |-> JList(<<[attributes |->
                                   [name |-> <<"a", " ", "a">>, handle |-> <<"a", "a">>]]>>)],
              [data |-> JList(<<[attributes |-> None]>>)] }}

MonWithId == [id |-> JInt(7), name |-> JStr("cpu")]
MonNoId == [name |-> JStr("disk")]
MonNullId == [id |-> None, name |-> JStr("mem")]
MonIdZero == [id |-> JInt(0)]

MonitorLists == SeqsUpTo({MonWithId, MonNoId}, MaxCandidates)

SearchBodies ==
    {[data |-> [monitors |-> JList(l)]] : l \in MonitorLists}
    \cup {[monitors |-> JList(l)] : l \in MonitorLists}
    \cup { JList(<<>>),
           EmptyDict,
           [monitors |-> None],
           [data |-> [monitors |-> None]],
           [data |-> EmptyDict, monitors |-> JList(<<MonWithId>>)],
           [data |-> [monitors |-> JList(<<>>)], monitors |-> JList(<<MonWithId>>)],
           [data |-> [monitors |-> None], monitors |-> JList(<<MonWithId>>)],
           [data |-> None, monitors |-> JList(<<MonWithId>>)],
           [monitors |-> JList(<<MonNullId, MonNoId>>)],
           [monitors |-> JList(<<MonNullId, MonIdZero, MonWithId>>)] }

SearchAnswers ==
    {NetDown, Answer(400, EmptyDict), Answer(500, EmptyDict)}
    \cup {Answer(200, b) : b \in SearchBodies}

(***************************************************************************)
(* Spec: one run of find_monitors_for_team.                                *)
(***************************************************************************)
Init ==
    /\ team_input \in SearchKeywords
    /\ lookup = [kind |-> "idle"]
    /\ handle = <<>>
    /\ pc = "resolve"
    /\ vi = 0
    /\ requests = <<>>
    /\ responses = <<>>
    /\ last_err = None
    /\ result = [kind |-> "idle"]
    /\ lookup_requests = <<>>
    /\ RIdle /\ FIdle /\ NIdle

\* lines 19-20: teams = _list_teams_by_keyword(keyword) inside
\* _extract_team_handle: a failure of the lookup (line 12) leaves the function
TeamHandleOf_SynthesizeOnFailure(keyword, got) ==
    IF got.kind = "raise"
    THEN Returned(SynthesizedHandle(keyword))
    ELSE ExtractTeamHandle(keyword, ListTeams(got.value))
TeamHandleOf(keyword, got) ==
    IF got.kind = "raise"
    THEN got
    ELSE ExtractTeamHandle(keyword, ListTeams(got.value))

\* line 38: handle = _extract_team_handle(team_input); a failure of the lookup
\* (line 12) or of the extraction (line 32) leaves find_monitors_for_team
ResolveHandle ==
    /\ pc = "resolve"
    /\ \E answer \in LookupAnswers :
          LET got == RaiseForStatus(answer, LookupQuery(team_input))
              h == TeamHandleOf(team_input, got)
          IN  /\ lookup' = [kind |-> "answer", answer |-> answer]
              /\ lookup_requests' = Append(lookup_requests, LookupQuery(team_input))
              /\ IF h.kind = "raise"
                 THEN /\ result' = h
                      /\ pc' = "done"
                      /\ UNCHANGED <<handle, vi>>
                 ELSE /\ handle' = h.value
                      /\ vi' = 1
                      /\ pc' = "loop"
                      /\ UNCHANGED result
    /\ UNCHANGED <<team_input, requests, responses, last_err, rvars, fvars, nvars>>

\* lines 48-64: one iteration of "for q in variants"
SearchVariant ==
    /\ pc = "loop"
    /\ vi <= Len(Variants(handle))
    /\ \E answer \in SearchAnswers :
          LET q == Variants(handle)[vi]
              got == DatadogGet(answer, q)
              monitors == FilterMonitors(Candidates(got.value))
          IN  /\ requests' = Append(requests, q)
              /\ responses' = Append(responses, answer)
              /\ IF got.kind = "return"
                 THEN IF monitors # <<>>
                      THEN /\ result' = Returned(JList(monitors))
                           /\ pc' = "done"
                           /\ UNCHANGED <<vi, last_err>>
                      ELSE /\ vi' = vi + 1
                           /\ UNCHANGED <<pc, result, last_err>>
                 ELSE IF CaughtByLoop(got.value)
                      THEN /\ last_err' = RecordError(last_err, got.value)
                           /\ vi' = vi + 1
                           /\ UNCHANGED <<pc, result>>
                      ELSE /\ result' = got
                           /\ pc' = "done"
                           /\ UNCHANGED <<vi, last_err>>
    /\ UNCHANGED <<team_input, lookup, lookup_requests, handle, rvars, fvars, nvars>>

\* lines 66-71: after the loop
Finish ==
    /\ pc = "loop"
    /\ vi > Len(Variants(handle))
    /\ result' = AfterLoop(team_input, handle, last_err)
    /\ pc' = "done"
    /\ UNCHANGED <<team_input, lookup, lookup_requests, handle, vi, requests,
                   responses, last_err, rvars, fvars, nvars>>

Next == ResolveHandle \/ SearchVariant \/ Finish

Spec == Init /\ [][Next]_vars

(***************************************************************************)
(* get_synthetic_tests: the page loop.                                     *)
(***************************************************************************)
\* page_size = 100
PageSize == 100

\* params = {"page": page, "page_size": page_size}
PageParams(p) == [page |-> p, page_size |-> PageSize]

\* tests = data.get("tests", [])
TestsOf(data) == Get(data, "tests", JList(<<>>))

\* if not tests: break
NoTests(tests) == tests = None \/ tests = JList(<<>>)

\* if len(tests) < page_size: break
IsShortPage_OrEqual(tests) == Len(tests.list) <= PageSize
IsShortPage_Never(tests) == FALSE
IsShortPage(tests) == Len(tests.list) < PageSize

\* all_tests.extend(tests)
Extend(acc, tests) == acc \o tests.list

\* lines 40-48: the failure is printed and raised again
FetchFailure_ReturnPartial(acc, e) == Returned(JList(acc))
FetchFailure(acc, e) == Raised(e)

\* the items the endpoint serves as page p when it serves n of them
PageItems(p, n) == [i \in 1..n |-> <<p, i>>]

PageCounts == {0, 1, 37, 99, 100, 101}

PageAnswers(p) ==
    {NetDown, Answer(403, EmptyDict), Answer(500, EmptyDict),
     Answer(200, EmptyDict), Answer(200, [tests |-> None])}
    \cup {Answer(200, [tests |-> JList(PageItems(p, n))]) : n \in PageCounts}

InitFetch ==
    /\ fpc = "loop"
    /\ page = 0
    /\ all_tests = <<>>
    /\ page_requests = <<>>
    /\ page_responses = <<>>
    /\ fresult = [kind |-> "idle"]
    /\ RIdle /\ SIdle /\ NIdle

\* lines 37-57: one iteration of "while True"
FetchPage ==
    /\ fpc = "loop"
    /\ page < MaxPages
    /\ \E answer \in PageAnswers(page) :
          LET got == RaiseForStatus(answer, <<>>)
              tests == TestsOf(got.value)
          IN  /\ page_requests' = Append(page_requests, PageParams(page))
              /\ page_responses' = Append(page_responses, answer)
              /\ IF got.kind = "raise"
                 THEN /\ fresult' = FetchFailure(all_tests, got.value)
                      /\ fpc' = "done"
                      /\ UNCHANGED <<page, all_tests>>
                 ELSE IF NoTests(tests)
                      THEN /\ fpc' = "return"
                           /\ UNCHANGED <<page, all_tests, fresult>>
                      ELSE /\ all_tests' = Extend(all_tests, tests)
                           /\ IF IsShortPage(tests)
                              THEN fpc' = "return" /\ page' = page
                              ELSE fpc' = "loop" /\ page' = page + 1
                           /\ UNCHANGED fresult
    /\ UNCHANGED <<rvars, svars, nvars>>

\* line 59: return all_tests
ReturnTests ==
    /\ fpc = "return"
    /\ fresult' = Returned(JList(all_tests))
    /\ fpc' = "done"
    /\ UNCHANGED <<page, all_tests, page_requests, page_responses, rvars, svars, nvars>>

NextFetch == FetchPage \/ ReturnTests

SpecFetch == InitFetch /\ [][NextFetch]_vars

\* the interpreter keeps running the loop: a step that can be taken is taken
SpecFetchFair == SpecFetch /\ WF_vars(NextFetch)

(***************************************************************************)
(* The record normalizer of datadog_synthetics_export.py.  Every value of  *)
(* a test record is a wrapped JSON value: None, JInt(n), JStr(<chars>),    *)
(* JList(<values>) or a dict; every cell of the exported row likewise.     *)
(***************************************************************************)
NA == JStr(<<"N", "/", "A">>)

DigitChars == <<"0", "1", "2", "3", "4", "5", "6", "7", "8", "9">>

RECURSIVE NatToStr(_)
NatToStr(n) ==
    IF n < 10
    THEN <<DigitChars[n + 1]>>
    ELSE NatToStr(n \div 10) \o <<DigitChars[(n % 10) + 1]>>

\* str(n) of an int
IntToStr(n) == IF n < 0 THEN <<"-">> \o NatToStr(-n) ELSE NatToStr(n)

\* int(seconds): a string that is no number raises ValueError
IntOf(v) ==
    IF "int" \in DOMAIN v
    THEN Returned(v.int)
    ELSE Raised([exc |-> "ValueError", status |-> 0, query |-> <<>>])

\* 's' if n != 1 else ''
Plural(n) == IF n # 1 THEN <<"s">> ELSE <<>>

\* format_seconds_to_human, lines 78-94
FormatSecondsToHuman_MinutesFirst(seconds) ==
    IF ~Truthy(seconds) /\ seconds # JInt(0)
    THEN NA
    ELSE LET got == IntOf(seconds)
             sec == got.value
         IN  IF got.kind = "raise"
             THEN NA
             ELSE IF sec = 0
                  THEN JStr(<<"0", " ", "s", "e", "c", "o", "n", "d", "s">>)
                  ELSE IF sec % 60 = 0
                       THEN JStr(IntToStr(sec \div 60)
                                 \o <<" ", "m", "i", "n", "u", "t", "e">>
                                 \o Plural(sec \div 60))
                       ELSE IF sec % 3600 = 0
                            THEN JStr(IntToStr(sec \div 3600)
                                      \o <<" ", "h", "o", "u", "r">>
                                      \o Plural(sec \div 3600))
                            ELSE JStr(IntToStr(sec)
                                      \o <<" ", "s", "e", "c", "o", "n", "d", "s">>)
FormatSecondsToHuman(seconds) ==
    IF ~Truthy(seconds) /\ seconds # JInt(0)
    THEN NA
    ELSE LET got == IntOf(seconds)
             sec == got.value
         IN  IF got.kind = "raise"
             THEN NA
             ELSE IF sec = 0
                  THEN JStr(<<"0", " ", "s", "e", "c", "o", "n", "d", "s">>)
                  ELSE IF sec % 3600 = 0
                       THEN JStr(IntToStr(sec \div 3600)
                                 \o <<" ", "h", "o", "u", "r">>
                                 \o Plural(sec \div 3600))
                       ELSE IF sec % 60 = 0
                            THEN JStr(IntToStr(sec \div 60)
                                      \o <<" ", "m", "i", "n", "u", "t", "e">>
                                      \o Plural(sec \div 60))
                            ELSE JStr(IntToStr(sec)
                                      \o <<" ", "s", "e", "c", "o", "n", "d", "s">>)

\* test_type = (test.get("type") or "").lower(), line 181
TestType(test) ==
    LET t == Get(test, "type", None)
    IN  IF Truthy(t) THEN Lower(t.str) ELSE <<>>

Api == <<"a", "p", "i">>
Browser == <<"b", "r", "o", "w", "s", "e", "r">>
Mobile == <<"m", "o", "b", "i", "l", "e">>
Multistep == JStr(<<"m", "u", "l", "t", "i", "s", "t", "e", "p">>)

\* extract_subtype, lines 62-75 (the same in synthetic_tests_extractor.py, 55-69)
ExtractSubtype_AnySteps(test, test_type) ==
    IF test_type = Api
    THEN Get(test, "subtype", NA)
    ELSE IF test_type \in {Browser, Mobile}
         THEN IF Truthy(Get(test, "steps", JList(<<>>))) THEN Multistep ELSE NA
         ELSE NA
ExtractSubtype(test, test_type) ==
    IF test_type = Api
    THEN Get(test, "subtype", NA)
    ELSE IF test_type \in {Browser, Mobile}
         THEN LET steps == Get(test, "steps", JList(<<>>))
              IN  IF Truthy(steps) /\ Len(steps.list) > 1 THEN Multistep ELSE NA
         ELSE NA

\* options = test.get("options", {}); options.get(key, default): a null options
\* has no get
OptionsGet(test, key, default) ==
    LET options == Get(test, "options", EmptyDict)
    IN  IF options = None
        THEN Raised(AttributeError)
        ELSE Returned(Get(options, key, default))

\* extract_frequency, lines 97-104
ExtractFrequency_ApiOnly(test, test_type) ==
    LET tick_every == OptionsGet(test, "tick_every", None)
    IN  IF tick_every.kind = "raise"
        THEN tick_every
        ELSE IF test_type = Api
             THEN Returned(FormatSecondsToHuman(tick_every.value))
             ELSE Returned(NA)
ExtractFrequency(test, test_type) ==
    LET tick_every == OptionsGet(test, "tick_every", None)
    IN  IF tick_every.kind = "raise"
        THEN tick_every
        ELSE Returned(FormatSecondsToHuman(tick_every.value))

DAY_MAP ==
    [d \in 1..7 |->
        <<  <<"M", "o", "n">>, <<"T", "u", "e">>, <<"W", "e", "d">>,
            <<"T", "h", "u">>, <<"F", "r", "i">>, <<"S", "a", "t">>,
            <<"S", "u", "n">>  >>[d]]

\* sep.join(strs) of a sequence of JSON strings
RECURSIVE Join(_, _)
Join(sep, strs) ==
    IF strs = <<>>
    THEN <<>>
    ELSE IF Len(strs) = 1
         THEN strs[1].str
         ELSE strs[1].str \o sep \o Join(sep, Tail(strs))

\* v or default
Or(v, default) == IF Truthy(v) THEN v ELSE default

\* day_str = DAY_MAP.get(day_num, str(day_num) if day_num is not None else "N/A")
DayStr(day_num) ==
    IF day_num = None
    THEN NA.str
    ELSE IF day_num.int \in DOMAIN DAY_MAP
         THEN DAY_MAP[day_num.int]
         ELSE IntToStr(day_num.int)

\* the body of the loop of extract_schedule, lines 119-128: the windows one
\* timeframe appends
Window_StartOnly(tf) ==
    LET day_num == Get(tf, "day", None)
        start   == Get(tf, "from", None)
        end     == Get(tf, "to", None)
    IN  IF Truthy(start)
        THEN IF day_num = None
             THEN << JStr(start.str \o <<"-">> \o Or(end, JStr(<<>>)).str) >>
             ELSE << JStr(DayStr(day_num) \o <<" ">> \o start.str \o <<"-">>
                          \o Or(end, JStr(<<>>)).str) >>
        ELSE <<>>
Window(tf) ==
    LET day_num == Get(tf, "day", None)
        start   == Get(tf, "from", None)
        end     == Get(tf, "to", None)
    IN  IF Truthy(start) /\ Truthy(end)
        THEN IF day_num = None
             THEN << JStr(start.str \o <<"-">> \o end.str) >>
             ELSE << JStr(DayStr(day_num) \o <<" ">> \o start.str \o <<"-">> \o end.str) >>
        ELSE <<>>

RECURSIVE Windows(_)
Windows(timeframes) ==
    IF timeframes = <<>>
    THEN <<>>
    ELSE Window(Head(timeframes)) \o Windows(Tail(timeframes))

\* ", ".join(xs) if xs else "N/A"
JoinOrNA(sep, xs) == IF Truthy(xs) THEN JStr(Join(sep, xs.list)) ELSE NA

\* extract_schedule, lines 107-133
ExtractSchedule(test) ==
    LET got == OptionsGet(test, "scheduling", EmptyDict)
        scheduling == Or(got.value, EmptyDict)
        timezone   == Or(Get(scheduling, "timezone", None), NA)
        timeframes == Or(Get(scheduling, "timeframes", None), JList(<<>>))
        windows    == Windows(timeframes.list)
    IN  IF got.kind = "raise"
        THEN got
        ELSE Returned([schedule_timezone |-> timezone,
                       schedule_windows  |-> JoinOrNA(<<";", " ">>, JList(windows))])

\* extract_locations, lines 136-141
ExtractLocations(test) ==
    JoinOrNA(<<",", " ">>, Get(test, "locations", JList(<<>>)))

\* extract_device_ids, lines 144-150
ExtractDeviceIds(test) ==
    LET device_ids == OptionsGet(test, "device_ids", JList(<<>>))
    IN  IF device_ids.kind = "raise"
        THEN device_ids
        ELSE Returned(JoinOrNA(<<",", " ">>, device_ids.value))

\* extract_tags, lines 153-158
ExtractTags(test) ==
    JoinOrNA(<<",", " ">>, Get(test, "tags", JList(<<>>)))

\* extract_monitor_id, lines 161-166
ExtractMonitorId(test) ==
    LET monitor_id == Get(test, "monitor_id", None)
    IN  IF monitor_id # None THEN JStr(IntToStr(monitor_id.int)) ELSE NA

\* get_status, lines 169-174
GetStatus(test) ==
    LET status == Get(test, "status", None)
    IN  IF Truthy(status) THEN JStr(Lower(status.str)) ELSE NA

\* the row process_synthetic_tests appends for one test, lines 181-196; the
\* first call that raises ends it
ProcessRow(test) ==
    LET test_type  == TestType(test)
        schedule   == ExtractSchedule(test)
        frequency  == ExtractFrequency(test, test_type)
        device_ids == ExtractDeviceIds(test)
    IN  IF schedule.kind = "raise" THEN schedule
        ELSE IF frequency.kind = "raise" THEN frequency
        ELSE IF device_ids.kind = "raise" THEN device_ids
        ELSE Returned(
            [public_id         |-> Get(test, "public_id", NA),
             name              |-> Get(test, "name", NA),
             type              |-> JStr(test_type),
             subtype           |-> ExtractSubtype(test, test_type),
             status            |-> GetStatus(test),
             frequency         |-> frequency.value,
             locations         |-> ExtractLocations(test),
             monitor_id        |-> ExtractMonitorId(test),
             device_ids        |-> device_ids.value,
             tags              |-> ExtractTags(test),
             schedule_timezone |-> schedule.value.schedule_timezone,
             schedule_windows  |-> schedule.value.schedule_windows])

(***************************************************************************)
(* The same normalizer in synthetic_tests_extractor.py, where it differs.  *)
(***************************************************************************)
\* test_type = test.get("type", "").lower(), line 156: a null type has no lower
LegacyTestType(test) ==
    LET t == Get(test, "type", JStr(<<>>))
    IN  IF t = None THEN Raised(AttributeError) ELSE Returned(Lower(t.str))

\* str(v) of an int or a string, as an f-string renders it
StrOf(v) == IF "int" \in DOMAIN v THEN IntToStr(v.int) ELSE v.str

\* dict.get on the outcome of an earlier get: None has no get
GetOf(got, key, default) ==
    IF got.kind = "raise"
    THEN got
    ELSE IF got.value = None
         THEN Raised(AttributeError)
         ELSE Returned(Get(got.value, key, default))

\* extract_frequency, lines 72-95
LegacyExtractFrequency(test, test_type) ==
    LET options == Returned(Get(test, "options", EmptyDict))
    IN  IF test_type = Api
        THEN LET tick_every == GetOf(options, "tick_every", None)
             IN  IF tick_every.kind = "raise"
                 THEN tick_every
                 ELSE IF Truthy(tick_every.value)
                      THEN Returned(JStr(StrOf(tick_every.value)
                                    \o <<" ", "s", "e", "c", "o", "n", "d", "s">>))
                      ELSE Returned(NA)
        ELSE IF test_type \in {Browser, Mobile}
             THEN LET scheduling == GetOf(options, "scheduling", EmptyDict)
                      timeframe  == GetOf(scheduling, "timeframe", EmptyDict)
                      frequency  == GetOf(timeframe, "frequency", None)
                      freq_type  == GetOf(timeframe, "type", JStr(<<>>))
                  IN  IF frequency.kind = "raise"
                      THEN frequency
                      ELSE IF Truthy(frequency.value) /\ Truthy(freq_type.value)
                           THEN Returned(JStr(StrOf(frequency.value) \o <<" ">>
                                              \o freq_type.value.str))
                           ELSE Returned(NA)
             ELSE Returned(NA)

\* extract_monitor_id, lines 129-136
LegacyExtractMonitorId(test) ==
    LET monitor_id == Get(test, "monitor_id", None)
    IN  IF Truthy(monitor_id) THEN JStr(IntToStr(monitor_id.int)) ELSE NA

\* the row process_synthetic_tests appends for one test, lines 156-169
LegacyProcessRow(test) ==
    LET test_type  == LegacyTestType(test)
        frequency  == LegacyExtractFrequency(test, test_type.value)
        device_ids == ExtractDeviceIds(test)
    IN  IF test_type.kind = "raise" THEN test_type
        ELSE IF frequency.kind = "raise" THEN frequency
        ELSE IF device_ids.kind = "raise" THEN device_ids
        ELSE Returned(
            [public_id  |-> Get(test, "public_id", NA),
             name       |-> Get(test, "name", NA),
             type       |-> JStr(test_type.value),
             subtype    |-> ExtractSubtype(test, test_type.value),
             status     |-> GetStatus(test),
             frequency  |-> frequency.value,
             locations  |-> ExtractLocations(test),
             monitor_id |-> LegacyExtractMonitorId(test),
             device_ids |-> device_ids.value,
             tags       |-> ExtractTags(test)])

(***************************************************************************)
(* The test records the normalizer is run on: the records of the list      *)
(* endpoint, with every field the normalizer reads present, absent or      *)
(* null.                                                                   *)
(***************************************************************************)
Absent == [absent |-> TRUE]

\* the dict d without the keys marked Absent
Drop(d) == [k \in {key \in DOMAIN d : d[key] # Absent} |-> d[k]]

Str_http == JStr(<<"h", "t", "t", "p">>)
Str_UTC == JStr(<<"U", "T", "C">>)
Str_from == JStr(<<"0", "6", ":", "0", "0">>)
Str_to == JStr(<<"2", "0", ":", "0", "0">>)
Str_minutes == JStr(<<"m", "i", "n", "u", "t", "e", "s">>)
Str_loc == JStr(<<"a", "w", "s">>)
Str_tag == JStr(<<"e", "n", "v">>)

TypeValues ==
    {Absent, None, JStr(<<>>), JStr(Api), JStr(<<"A", "P", "I">>), JStr(Browser),
     JStr(<<"B", "r", "o", "w", "s", "e", "r">>), JStr(Mobile),
     JStr(<<"M", "o", "b", "i", "l", "e">>), JStr(<<"a", "l", "l">>)}

TickValues ==
    {Absent, None, JStr(<<"a">>)} \cup {JInt(n) : n \in (-MaxSeconds)..MaxSeconds}

Step == [name |-> JStr(<<"s">>)]
StepsValues == {Absent, None} \cup {JList(ss) : ss \in SeqsUpTo({Step}, MaxSteps)}

Timeframes ==
    {Drop([day |-> d, from |-> f, to |-> t]) :
        d \in {Absent, JInt(1), JInt(8)},
        f \in {Absent, None, Str_from},
        t \in {Absent, Str_to}}

SchedulingValues ==
    {Absent, None, EmptyDict}
    \cup {Drop([timezone |-> z, timeframes |-> tfs]) :
            z \in {Absent, None, Str_UTC}, tfs \in {Absent, None}}
    \cup {Drop([timezone |-> z, timeframes |-> JList(<<[day |-> JInt(d), from |-> Str_from, to |-> Str_to]>>)]) :
            z \in {Absent, Str_UTC}, d \in 0..8}
    \cup {[timeframes |-> JList(<<Drop([day |-> d, from |-> f, to |-> t])>>)] :
            d \in {None, JInt(7)}, f \in {JStr(<<>>), Str_from}, t \in {None, JStr(<<>>), Str_to}}
    \cup {[timezone |-> Str_UTC, timeframes |-> JList(tfs)] :
            tfs \in SeqsUpTo(Timeframes, MaxTimeframes)}

\* a record of the list endpoint with every field set
FullTest ==
    [public_id  |-> JStr(<<"a", "-", "1">>),
     name       |-> JStr(<<"A", "P", "I">>),
     type       |-> JStr(Api),
     subtype    |-> Str_http,
     status     |-> JStr(<<"L", "i", "v", "e">>),
     steps      |-> JList(<<Step, Step>>),
     locations  |-> JList(<<Str_loc, Str_loc>>),
     tags       |-> JList(<<Str_tag>>),
     monitor_id |-> JInt(12),
     options    |-> [tick_every |-> JInt(300),
                     device_ids |-> JList(<<Str_tag, Str_loc>>),
                     scheduling |-> [timezone   |-> Str_UTC,
                                     timeframe  |-> [frequency |-> JInt(15), type |-> Str_minutes],
                                     timeframes |-> JList(<<[day |-> JInt(1), from |-> Str_from, to |-> Str_to]>>)]]]

\* records that differ in the tick
TickTests ==
    {Drop([FullTest EXCEPT !.options = Drop([@ EXCEPT !.tick_every = v])]) :
        v \in TickValues}

\* records that differ in type, subtype and steps
SubtypeTests ==
    {Drop([FullTest EXCEPT !.type = t, !.subtype = st, !.steps = ss]) :
        t \in TypeValues, st \in {Absent, None, Str_http}, ss \in StepsValues}

\* records that differ in the schedule
ScheduleTests ==
    {Drop([FullTest EXCEPT !.options = Drop([@ EXCEPT !.scheduling = sch])]) :
        sch \in SchedulingValues}

\* records with one field absent, null or empty
SparseTests ==
    UNION {
        {Drop([[FullTest EXCEPT !.type = t] EXCEPT ![key] = v]) :
            key \in DOMAIN FullTest \ {"type"}, v \in {Absent, None}}
        \cup {Drop([[FullTest EXCEPT !.type = t] EXCEPT !.options = Drop([@ EXCEPT ![key] = v])]) :
            key \in {"tick_every", "device_ids", "scheduling"}, v \in {Absent, None}}
        \cup {[[FullTest EXCEPT !.type = t]
                  EXCEPT !.options = EmptyDict, !.locations = JList(<<>>),
                         !.tags = JList(<<>>), !.monitor_id = JInt(0),
                         !.status = JStr(<<>>)],
              [type |-> t], EmptyDict}
        : t \in {JStr(Api), JStr(Browser)}}

TestRecords == TickTests \cup SubtypeTests \cup ScheduleTests \cup SparseTests

InitNormalize ==
    /\ nscript \in {"export", "extractor"}
    /\ ntest \in TestRecords
    /\ nrow = NoResult
    /\ npc = "process"
    /\ RIdle /\ SIdle /\ FIdle

\* one turn of the loop of process_synthetic_tests in
\* datadog_synthetics_export.py
ProcessExport ==
    /\ npc = "process"
    /\ nscript = "export"
    /\ nrow' = ProcessRow(ntest)
    /\ npc' = "done"
    /\ UNCHANGED <<rvars, svars, fvars, nscript, ntest>>

\* one turn of the loop of process_synthetic_tests in
\* synthetic_tests_extractor.py
ProcessExtractor ==
    /\ npc = "process"
    /\ nscript = "extractor"
    /\ nrow' = LegacyProcessRow(ntest)
    /\ npc' = "done"
    /\ UNCHANGED <<rvars, svars, fvars, nscript, ntest>>

NextNormalize == ProcessExport \/ ProcessExtractor

SpecNormalize == InitNormalize /\ [][NextNormalize]_vars

(***************************************************************************)
(* Claims about _extract_team_handle, checked under SpecResolve.           *)
(***************************************************************************)
\* what the lookup returned, read off the body
ReturnedRecords(body) ==
    IF "data" \in DOMAIN body /\ body.data # None THEN body.data.list ELSE <<>>

\* the record carries this attribute
HasAttr(t, key) ==
    /\ "attributes" \in DOMAIN t
    /\ t.attributes # None
    /\ key \in DOMAIN t.attributes

EqualsIgnoringCase(a, b) == Lower(a) = Lower(b)

\* the record's name or handle equals the keyword case-insensitively
NameOrHandleEquals(keyword, t) ==
    \E key \in {"name", "handle"} :
        HasAttr(t, key) /\ EqualsIgnoringCase(t.attributes[key], keyword)

\* the same, an absent name or handle read as the empty string (as line 27-28 read it)
NameOrHandleEqualsOrBlank(keyword, t) ==
    \/ NameOrHandleEquals(keyword, t)
    \/ keyword = <<>> /\ (~HasAttr(t, "name") \/ ~HasAttr(t, "handle"))

\* s without its leading and trailing whitespace, by positions
Trimmed(s) ==
    LET solid == {k \in 1..Len(s) : s[k] \notin Whitespace}
    IN  IF solid = {}
        THEN <<>>
        ELSE LET lo == CHOOSE k \in solid : \A j \in solid : k <= j
                 hi == CHOOSE k \in solid : \A j \in solid : j <= k
             IN  [k \in 1..(hi - lo + 1) |-> s[lo + k - 1]]

Hyphenated(s) == [k \in 1..Len(s) |-> IF s[k] = " " THEN "-" ELSE LowerChar(s[k])]

\* lower-case and without a space character
Normalized(s) == \A k \in 1..Len(s) : s[k] # " " /\ s[k] # "A"

\* C5 as stated: with zero records returned, _extract_team_handle returns the
\* keyword lower-cased with every space replaced by a hyphen, and does not raise.
C5_Original ==
    (rpc = "done" /\ ReturnedRecords(rbody) = <<>>)
        => rresult = Returned(Hyphenated(rkeyword))

\* C5 amended: with zero records returned, _extract_team_handle does not raise and
\* returns the keyword with its leading and trailing whitespace stripped, then
\* lower-cased, with every remaining space replaced by a hyphen.
C5_StrippedSynthesized ==
    (rpc = "done" /\ ReturnedRecords(rbody) = <<>>)
        => rresult = Returned(Hyphenated(Trimmed(rkeyword)))

C5_Witness ==
    /\ rpc = "done"
    /\ ReturnedRecords(rbody) = <<>>
    /\ rkeyword = <<"A", " ", "a">>
    /\ rresult = Returned(<<"a", "-", "a">>)

\* C6: when some returned record's name or handle equals the keyword
\* case-insensitively, _extract_team_handle returns the handle of the first such
\* record in returned order (the empty string when that record carries no handle),
\* also when that record is not the first of the list.
C6_FirstExactMatchWins ==
    LET teams == ReturnedRecords(rbody)
        hits == {k \in 1..Len(teams) : NameOrHandleEquals(rkeyword, teams[k])}
    IN  (rpc = "done" /\ hits # {})
            => LET m == CHOOSE k \in hits : \A j \in hits : k <= j
               IN  rresult = Returned(IF HasAttr(teams[m], "handle")
                                    THEN teams[m].attributes.handle
                                    ELSE <<>>)

C6_Witness ==
    LET teams == ReturnedRecords(rbody)
    IN  /\ rpc = "done"
        /\ Len(teams) = 2
        /\ HasAttr(teams[1], "handle") /\ HasAttr(teams[2], "handle")
        /\ ~NameOrHandleEquals(rkeyword, teams[1])
        /\ NameOrHandleEquals(rkeyword, teams[2])
        /\ teams[1].attributes.handle # teams[2].attributes.handle
        /\ rresult = Returned(teams[2].attributes.handle)

\* C7: with at least one record returned and none matching the keyword exactly,
\* _extract_team_handle returns the handle attribute of the first record, or the
\* synthesized handle when that record has no handle attribute, and does not
\* raise.  (The synthesized handle is read as the value the zero-record case
\* returns, and an absent name or handle as the empty string.)
C7_FallbackToFirstNeverRaises ==
    LET teams == ReturnedRecords(rbody)
    IN  (/\ rpc = "done"
         /\ teams # <<>>
         /\ \A k \in 1..Len(teams) : ~NameOrHandleEqualsOrBlank(rkeyword, teams[k]))
            => rresult = Returned(IF HasAttr(teams[1], "handle")
                                THEN teams[1].attributes.handle
                                ELSE Hyphenated(Trimmed(rkeyword)))

\* C8 as stated: every handle _extract_team_handle returns is lower-case and
\* contains no space character.
C8_Original ==
    (rpc = "done" /\ rresult.kind = "return") => Normalized(rresult.value)

\* the handle is made from the keyword: no record was returned, or none matches
\* and the first record carries no handle
IsSynthesized(keyword, teams) ==
    \/ teams = <<>>
    \/ /\ \A k \in 1..Len(teams) : ~NameOrHandleEqualsOrBlank(keyword, teams[k])
       /\ ~HasAttr(teams[1], "handle")

\* C8 amended: a returned handle is lower-case and free of spaces whenever it is
\* synthesized from the keyword (zero records, or no exact match and a first
\* record without a handle attribute); otherwise it is the handle attribute of a
\* returned record, verbatim (the empty string for a matching record without one).
C8_SynthesizedIsNormalized ==
    LET teams == ReturnedRecords(rbody)
    IN  (rpc = "done" /\ rresult.kind = "return")
            => IF IsSynthesized(rkeyword, teams)
               THEN Normalized(rresult.value)
               ELSE \/ rresult.value = <<>>
                    \/ \E k \in 1..Len(teams) :
                          /\ HasAttr(teams[k], "handle")
                          /\ rresult.value = teams[k].attributes.handle

C8_Witness ==
    LET teams == ReturnedRecords(rbody)
    IN  /\ rpc = "done"
        /\ teams # <<>>
        /\ IsSynthesized(rkeyword, teams)
        /\ rkeyword = <<"a", " ", "A">>
        /\ rresult = Returned(<<"a", "-", "a">>)

(***************************************************************************)
(* Claims about find_monitors_for_team, checked under Spec.                *)
(***************************************************************************)
\* the probe order the specification gives: team:h, team:"h", teams:h, teams:"h"
ProbeOrder(h) ==
    << <<"t", "e", "a", "m", ":">> \o h,
       <<"t", "e", "a", "m", ":", "\"">> \o h \o <<"\"">>,
       <<"t", "e", "a", "m", "s", ":">> \o h,
       <<"t", "e", "a", "m", "s", ":", "\"">> \o h \o <<"\"">> >>

\* how the remote end answered one variant
Succeeded(a) == a.net = "ok" /\ a.status < 400
ClientError(a) == a.net = "ok" /\ a.status >= 400 /\ a.status < 500
OtherFailure(a) == a.net = "down" \/ a.status >= 500

\* the id-filtered result of a successful answer
IdFiltered(a) == FilterMonitors(Candidates(a.body))
NonEmptyResult(a) == Succeeded(a) /\ IdFiltered(a) # <<>>
EmptyResult(a) == Succeeded(a) /\ IdFiltered(a) = <<>>

\* C1: the search requests are issued in the order team:h, team:"h", teams:h,
\* teams:"h", each at most once, and the run stops at the first variant whose
\* id-filtered result is non-empty: that list is returned and no later variant
\* is requested.
C1_ProbeOrderFirstSuccessWins ==
    /\ Len(requests) <= 4
    /\ Len(responses) = Len(requests)
    /\ requests = SubSeq(ProbeOrder(handle), 1, Len(requests))
    /\ \A k \in 1..Len(responses) :
          NonEmptyResult(responses[k])
              => /\ Len(requests) = k
                 /\ pc = "done"
                 /\ result = Returned(JList(IdFiltered(responses[k])))
    /\ (pc = "done" /\ result.kind = "return" /\ result.value # None)
          => NonEmptyResult(responses[Len(responses)])

C1_Witness ==
    /\ pc = "done"
    /\ Len(requests) = 3
    /\ EmptyResult(responses[1])
    /\ ClientError(responses[2])
    /\ NonEmptyResult(responses[3])
    /\ requests[3] = <<"t", "e", "a", "m", "s", ":", "a", "-", "a">>
    /\ result = Returned(JList(<<[id |-> JInt(7), name |-> JStr("cpu")]>>))

\* C2: when all four variants succeed and each yields an empty id-filtered list,
\* find_monitors_for_team does not raise: it returns no result (None), which is
\* not the aggregated failure.
C2_AllEmptyIsNoMatches ==
    (/\ pc = "done"
     /\ Len(responses) = 4
     /\ \A k \in 1..4 : EmptyResult(responses[k]))
        => result = Returned(None)

C2_Witness ==
    /\ pc = "done"
    /\ Len(requests) = 4
    /\ responses[1].body = [monitors |-> JList(<<>>)]
    /\ responses[2].body = [data |-> [monitors |-> JList(<<MonNoId>>)]]
    /\ responses[3].body = EmptyDict
    /\ responses[4].body = [monitors |-> JList(<<>>)]
    /\ \A k \in 1..4 : EmptyResult(responses[k])
    /\ result = Returned(None)

\* C3: when every variant is either rejected with a client error or succeeds with
\* an empty id-filtered list, and at least one is rejected, find_monitors_for_team
\* raises the aggregated failure, whose message carries the original keyword, the
\* resolved handle and the error of the last rejected variant in probe order,
\* also when later variants succeed with empty results.
C3_AggregatedFailureReportsLastRejection ==
    LET rejected == {k \in 1..Len(responses) : ClientError(responses[k])}
    IN  (/\ pc = "done"
         /\ Len(responses) = 4
         /\ \A k \in 1..4 : ClientError(responses[k]) \/ EmptyResult(responses[k])
         /\ rejected # {})
            => LET last == CHOOSE k \in rejected : \A j \in rejected : j <= k
               IN  /\ result.kind = "raise"
                   /\ result.value.exc = "RuntimeError"
                   /\ result.value.msg.team_input = team_input
                   /\ result.value.msg.handle = handle
                   /\ result.value.msg.last_error =
                          HTTPError(responses[last].status, ProbeOrder(handle)[last])

C3_Witness ==
    /\ pc = "done"
    /\ Len(responses) = 4
    /\ ClientError(responses[1]) /\ EmptyResult(responses[2])
    /\ ClientError(responses[3]) /\ EmptyResult(responses[4])
    /\ result.kind = "raise"
    /\ result.value.exc = "RuntimeError"
    /\ result.value.msg.team_input = <<"A", " ", "a">>
    /\ result.value.msg.handle = <<"a", "-", "a">>
    /\ result.value.msg.last_error.query = <<"t", "e", "a", "m", "s", ":", "a", "-", "a">>

\* C4: in the variant loop only a client-error answer is recovered by advancing
\* to the next variant; any other failure of a search request (a server-error
\* status, a network failure) propagates at once and no later variant is
\* requested.
C4_OnlyClientErrorsRecovered ==
    \A k \in 1..Len(responses) :
        /\ OtherFailure(responses[k])
              => /\ Len(requests) = k
                 /\ pc = "done"
                 /\ result.kind = "raise"
                 /\ result.value.exc \in {"HTTPError", "ConnectionError"}
        /\ (ClientError(responses[k]) /\ pc = "done" /\ Len(requests) = k)
              => (k = 4 /\ result.kind = "raise" /\ result.value.exc = "RuntimeError")

(***************************************************************************)
(* Claims about get_synthetic_tests, checked under SpecFetch.              *)
(***************************************************************************)
\* the number of items a successful page answer carries
ItemCount(a) ==
    IF "tests" \in DOMAIN a.body /\ a.body.tests # None
    THEN Len(a.body.tests.list)
    ELSE 0

ItemsOf(a) ==
    IF "tests" \in DOMAIN a.body /\ a.body.tests # None THEN a.body.tests.list ELSE <<>>

RECURSIVE ConcatPages(_)
\* the items of a sequence of page answers, in order
ConcatPages(as) ==
    IF as = <<>> THEN <<>> ELSE ItemsOf(Head(as)) \o ConcatPages(Tail(as))

StopsPaging(a) == Succeeded(a) /\ (ItemCount(a) = 0 \/ ItemCount(a) < 100)

\* C9: with successful answers, get_synthetic_tests requests pages 0, 1, 2, ...
\* in order, one request per index with page_size 100, stops after the first page
\* k that has zero or fewer than 100 items, having issued k+1 requests, and returns
\* the items of pages 0..k concatenated in order.
C9_PagesInOrderUntilShortPage ==
    /\ Len(page_responses) = Len(page_requests)
    /\ \A k \in 1..Len(page_requests) :
          page_requests[k] = [page |-> k - 1, page_size |-> 100]
    /\ \A k \in 1..Len(page_responses) :
          StopsPaging(page_responses[k])
              => /\ Len(page_requests) = k
                 /\ fpc \in {"return", "done"}
                 /\ fpc = "done" => fresult = Returned(JList(ConcatPages(page_responses)))
    /\ (fpc = "done" /\ fresult.kind = "return")
          => StopsPaging(page_responses[Len(page_responses)])

C9_Witness ==
    /\ fpc = "done"
    /\ Len(page_requests) = 3
    /\ ItemCount(page_responses[1]) = 100
    /\ ItemCount(page_responses[2]) = 100
    /\ ItemCount(page_responses[3]) = 37
    /\ fresult.kind = "return"
    /\ Len(fresult.value.list) = 237
    /\ fresult.value.list[201] = <<2, 1>>

\* C10: a non-success answer to any page request aborts the fetch by raising: no
\* further page is requested and the items of the earlier pages are not returned.
C10_FailureAbortsWithoutPartialResult ==
    \A k \in 1..Len(page_responses) :
        ~Succeeded(page_responses[k])
            => /\ Len(page_requests) = k
               /\ fpc = "done"
               /\ fresult.kind = "raise"
               /\ fresult.value.exc \in {"HTTPError", "ConnectionError"}
               /\ fresult.value.status = page_responses[k].status

C10_Witness ==
    /\ fpc = "done"
    /\ Len(page_requests) = 2
    /\ ItemCount(page_responses[1]) = 100
    /\ page_responses[2].status = 403
    /\ Len(all_tests) = 100
    /\ fresult = Raised(HTTPError(403, <<>>))

\* every answer so far succeeded with at least page_size items
AllPagesFull ==
    \A k \in 1..Len(page_responses) :
        Succeeded(page_responses[k]) /\ ItemCount(page_responses[k]) >= 100

\* the loop has not stopped: the next request is for the page after the last
StillPaging == fpc = "loop" /\ page = Len(page_responses) /\ fresult.kind = "idle"

\* C15: get_synthetic_tests terminates if and only if the endpoint at some
\* point returns an error or a page with fewer than page_size items: as long
\* as every answer has page_size items or more the loop goes on to the next
\* page, whatever the page index, and once an answer is an error or a short or
\* empty page the function ends; it ends for no other reason.
C15_StopsOnlyOnShortPageOrError ==
    /\ [](AllPagesFull => StillPaging)
    /\ [](fpc \in {"return", "done"} => ~AllPagesFull)
    /\ (~AllPagesFull) ~> (fpc = "done")

C15_Witness ==
    /\ Len(page_responses) = 3
    /\ AllPagesFull
    /\ \A k \in 1..3 : ItemCount(page_responses[k]) = 100
    /\ StillPaging
    /\ Len(all_tests) = 300

(***************************************************************************)
(* Claims about the record normalizer, checked under SpecNormalize.        *)
(***************************************************************************)
Exported == npc = "done" /\ nscript = "export"

\* the field is absent from the dict or null
Missing(d, key) == key \notin DOMAIN d \/ d[key] = None

OptionsOf(test) == IF Missing(test, "options") THEN EmptyDict ELSE test.options

\* options.tick_every, None when there is none
TickOf(test) ==
    IF Missing(OptionsOf(test), "tick_every") THEN None ELSE OptionsOf(test).tick_every

\* C11: for every record, also one where options, options.scheduling, steps,
\* tags, locations, status, monitor_id or subtype is absent or null,
\* process_synthetic_tests and each extractor return a value and never raise,
\* and the cell of a field that is absent or null is "N/A".
C11_NormalizerTotal ==
    Exported =>
        /\ nrow.kind = "return"
        /\ ExtractFrequency(ntest, TestType(ntest)).kind = "return"
        /\ ExtractSchedule(ntest).kind = "return"
        /\ ExtractDeviceIds(ntest).kind = "return"
        /\ Missing(ntest, "tags") => nrow.value.tags = NA
        /\ Missing(ntest, "locations") => nrow.value.locations = NA
        /\ Missing(ntest, "status") => nrow.value.status = NA
        /\ Missing(ntest, "monitor_id") => nrow.value.monitor_id = NA
        /\ Missing(ntest, "subtype") => nrow.value.subtype = NA
        /\ Missing(OptionsOf(ntest), "scheduling") => nrow.value.schedule_windows = NA

\* "<n> <unit>" with the unit in the plural unless n is 1
Unit(n, unit) == JStr(IntToStr(n) \o <<" ">> \o unit \o (IF n = 1 THEN <<>> ELSE <<"s">>))

Hour == <<"h", "o", "u", "r">>
Minute == <<"m", "i", "n", "u", "t", "e">>
Seconds == <<" ", "s", "e", "c", "o", "n", "d", "s">>

\* the exported record has a tick that is None or an integer
IntegerTick == Exported /\ nrow.kind = "return" /\ (TickOf(ntest) = None \/ "int" \in DOMAIN TickOf(ntest))

\* C12: for every integer n, format_seconds_to_human gives "N/A" for None,
\* "0 seconds" for 0, "<n/3600> hour(s)" for a multiple of 3600, else
\* "<n/60> minute(s)" for a multiple of 60, else "<n> seconds"; a value
\* divisible by 3600 and by 60 is reported in hours.
C12_HoursBeforeMinutes ==
    IntegerTick =>
        LET t == TickOf(ntest)
            n == t.int
            shown == nrow.value.frequency
        IN  /\ t = None => shown = NA
            /\ t # None =>
                /\ n = 0 => shown = JStr(<<"0">> \o Seconds)
                /\ (n # 0 /\ n % 3600 = 0) => shown = Unit(n \div 3600, Hour)
                /\ (n % 3600 # 0 /\ n % 60 = 0) => shown = Unit(n \div 60, Minute)
                /\ n % 60 # 0 => shown = JStr(IntToStr(n) \o Seconds)

C12_Witness ==
    /\ IntegerTick
    /\ TickOf(ntest) = JInt(7200)
    /\ nrow.value.frequency = JStr(<<"2", " ", "h", "o", "u", "r", "s">>)

\* the type of the record in lower case, empty when it has none
LowerType(test) == IF Missing(test, "type") THEN <<>> ELSE Lower(test.type.str)

\* the number of entries of the step list, 0 when there is none
StepCount(test) == IF Missing(test, "steps") THEN 0 ELSE Len(test.steps.list)

\* C13: for every record a script exports, the subtype is: for type "api"
\* (compared in lower case) the value of the record's subtype field, or "N/A"
\* when the record has no such field; for type "browser" or "mobile" it is
\* "multistep" when the step list has more than one entry and "N/A" when it
\* has zero or one entry or is absent; for every other type it is "N/A".
C13_SubtypeByType ==
    (npc = "done" /\ nrow.kind = "return") =>
        LET shown == nrow.value.subtype
            type  == LowerType(ntest)
        IN  /\ (type = Api /\ "subtype" \in DOMAIN ntest) => shown = ntest.subtype
            /\ (type = Api /\ "subtype" \notin DOMAIN ntest) => shown = NA
            /\ (type \in {Browser, Mobile} /\ StepCount(ntest) > 1) => shown = Multistep
            /\ (type \in {Browser, Mobile} /\ StepCount(ntest) <= 1) => shown = NA
            /\ type \notin {Api, Browser, Mobile} => shown = NA

C13_Witness ==
    /\ Exported
    /\ nrow.kind = "return"
    /\ Get(ntest, "type", None) = JStr(<<"M", "o", "b", "i", "l", "e">>)
    /\ StepCount(ntest) = 2
    /\ nrow.value.subtype = Multistep

\* the timeframes under options.scheduling.timeframes, none when a level is
\* missing
TimeframesOf(test) ==
    IF Missing(OptionsOf(test), "scheduling")
    THEN <<>>
    ELSE IF Missing(OptionsOf(test).scheduling, "timeframes")
         THEN <<>>
         ELSE OptionsOf(test).scheduling.timeframes.list

HasStartAndEnd(tf) ==
    /\ ~Missing(tf, "from") /\ tf.from # JStr(<<>>)
    /\ ~Missing(tf, "to") /\ tf.to # JStr(<<>>)

WeekDays == <<"Mon", "Tue", "Wed", "Thu", "Fri", "Sat", "Sun">>

\* the three letters of a label, one character each
Letters(label) ==
    CASE label = "Mon" -> <<"M", "o", "n">>
      [] label = "Tue" -> <<"T", "u", "e">>
      [] label = "Wed" -> <<"W", "e", "d">>
      [] label = "Thu" -> <<"T", "h", "u">>
      [] label = "Fri" -> <<"F", "r", "i">>
      [] label = "Sat" -> <<"S", "a", "t">>
      [] label = "Sun" -> <<"S", "u", "n">>

\* "<Day> <start>-<end>", or "<start>-<end>" without a day; a day outside
\* 1..7 stands as its number
Rendered(tf) ==
    LET span == tf.from.str \o <<"-">> \o tf.to.str
    IN  IF Missing(tf, "day")
        THEN span
        ELSE IF tf.day.int \in 1..7
             THEN Letters(WeekDays[tf.day.int]) \o <<" ">> \o span
             ELSE IntToStr(tf.day.int) \o <<" ">> \o span

\* the windows joined with "; "
RECURSIVE Joined(_, _)
Joined(tfs, k) ==
    IF k = 0
    THEN <<>>
    ELSE IF k = 1
         THEN Rendered(tfs[1])
         ELSE Joined(tfs, k - 1) \o <<";", " ">> \o Rendered(tfs[k])

\* C14: for every list of timeframes under options.scheduling.timeframes,
\* extract_schedule renders exactly the timeframes that have both a start and
\* an end, in their order, each as "<Day> <start>-<end>" with the days 1..7
\* as Mon..Sun, or as "<start>-<end>" when the timeframe has no day; the
\* windows are joined with "; ", and the result is "N/A" when there is none.
C14_WindowsOfCompleteTimeframes ==
    (Exported /\ nrow.kind = "return") =>
        LET complete == SelectSeq(TimeframesOf(ntest), HasStartAndEnd)
        IN  nrow.value.schedule_windows =
                IF complete = <<>> THEN NA ELSE JStr(Joined(complete, Len(complete)))

C14_Witness ==
    /\ Exported
    /\ nrow.kind = "return"
    /\ Len(TimeframesOf(ntest)) = 2
    /\ ~HasStartAndEnd(TimeframesOf(ntest)[1])
    /\ TimeframesOf(ntest)[2] = [day |-> JInt(1), from |-> Str_from, to |-> Str_to]
    /\ nrow.value.schedule_windows =
           JStr(<<"M", "o", "n", " ", "0", "6", ":", "0", "0", "-", "2", "0", ":", "0", "0">>)

\* the Duration Formatter's rendering of a tick
Rendering(t) ==
    CASE t = None -> NA
      [] t # None /\ "int" \notin DOMAIN t -> NA
      [] t # None /\ "int" \in DOMAIN t /\ t.int = 0 -> JStr(<<"0">> \o Seconds)
      [] t # None /\ "int" \in DOMAIN t /\ t.int # 0 /\ t.int % 3600 = 0 ->
            Unit(t.int \div 3600, Hour)
      [] t # None /\ "int" \in DOMAIN t /\ t.int % 3600 # 0 /\ t.int % 60 = 0 ->
            Unit(t.int \div 60, Minute)
      [] t # None /\ "int" \in DOMAIN t /\ t.int % 60 # 0 ->
            JStr(IntToStr(t.int) \o Seconds)

\* C16 as stated: the exported frequency of a record depends only on
\* options.tick_every, not on the type: whatever the type, it is the Duration
\* Formatter's rendering of tick_every, or "N/A" when tick_every is absent.
C16_Original ==
    (npc = "done" /\ nrow.kind = "return") =>
        nrow.value.frequency = Rendering(TickOf(ntest))

\* options.scheduling.timeframe of a record the extractor script exported
TimeframeOf(test) == Get(Get(OptionsOf(test), "scheduling", EmptyDict), "timeframe", EmptyDict)

\* C16: in datadog_synthetics_export.py the exported frequency depends only
\* on options.tick_every and is its rendering by the Duration Formatter
\* whatever the type; in synthetic_tests_extractor.py it depends on the type:
\* "<tick_every> seconds" for api, "<frequency> <type>" of
\* options.scheduling.timeframe for browser and mobile, "N/A" for the rest and
\* when the value is absent or zero.
C16_FrequencyByScript ==
    (npc = "done" /\ nrow.kind = "return") =>
        LET shown == nrow.value.frequency
            type  == LowerType(ntest)
            tick  == TickOf(ntest)
            tf    == TimeframeOf(ntest)
        IN  /\ nscript = "export" => shown = Rendering(tick)
            /\ (nscript = "extractor" /\ type = Api) =>
                  shown = IF Truthy(tick) THEN JStr(StrOf(tick) \o Seconds) ELSE NA
            /\ (nscript = "extractor" /\ type \in {Browser, Mobile}) =>
                  shown = IF Truthy(Get(tf, "frequency", None)) /\ Truthy(Get(tf, "type", None))
                          THEN JStr(StrOf(tf.frequency) \o <<" ">> \o tf.type.str)
                          ELSE NA
            /\ (nscript = "extractor" /\ type \notin {Api, Browser, Mobile}) => shown = NA

C16_Witness ==
    /\ Exported
    /\ nrow.kind = "return"
    /\ LowerType(ntest) = Browser
    /\ TickOf(ntest) = JInt(300)
    /\ nrow.value.frequency = JStr(<<"5", " ", "m", "i", "n", "u", "t", "e", "s">>)

(***************************************************************************)
(* Claims about the candidates of a search response, checked under Spec.   *)
(***************************************************************************)
IsObject(v) == DOMAIN v \cap {"none", "int", "str", "list"} = {}

\* the value the candidates are read from: data.monitors when the body has a
\* data object with monitors, else the top-level monitors, else nothing
MonitorsValue(body) ==
    CASE IsObject(body) /\ ~Missing(body, "data") /\ IsObject(body.data)
            /\ "monitors" \in DOMAIN body.data -> body.data.monitors
      [] OTHER ->
            IF IsObject(body) /\ "monitors" \in DOMAIN body THEN body.monitors ELSE None

\* the candidate list: empty for a null or missing monitors value
CandidateList(body) ==
    IF MonitorsValue(body) = None THEN <<>> ELSE MonitorsValue(body).list

\* the run went on after answer k without a result
Advanced(k) == Len(requests) > k \/ (Len(requests) = k /\ vi = k + 1)

\* no exception but the aggregated failure has left the function
NothingRaisedBySearch == result.kind = "raise" => result.value.exc = "RuntimeError"

\* C17: for every successful search response the candidates are data.monitors
\* when the response has a data object containing monitors, otherwise the
\* top-level monitors; a response with neither shape, a non-object response or
\* a null monitors value has no candidates, and the engine then goes on to the
\* next variant and raises nothing.
C17_CandidatesFromEitherShape ==
    \A k \in 1..Len(responses) :
        Succeeded(responses[k]) =>
            LET c == CandidateList(responses[k].body)
            IN  /\ c = <<>> => (Advanced(k) /\ (Len(requests) = k => NothingRaisedBySearch))
                /\ (\E i \in 1..Len(c) : ~Missing(c[i], "id")) =>
                      /\ Len(requests) = k
                      /\ pc = "done"
                      /\ result.kind = "return"
                      /\ Len(result.value.list) <= Len(c)
                      /\ \A j \in 1..Len(result.value.list) :
                            \E i \in 1..Len(c) :
                                ~Missing(c[i], "id") /\ c[i].id = result.value.list[j].id

C17_Witness ==
    /\ Len(requests) = 3
    /\ responses[1] = Answer(200, [data |-> [monitors |-> None], monitors |-> JList(<<MonWithId>>)])
    /\ responses[2] = Answer(200, JList(<<>>))
    /\ responses[3] = Answer(200, [data |-> EmptyDict, monitors |-> JList(<<MonWithId>>)])
    /\ pc = "done"
    /\ result = Returned(JList(<<[id |-> JInt(7), name |-> JStr("cpu")]>>))

\* the candidates with a non-null id, in order, as {id, name}
RECURSIVE WithId(_)
WithId(c) ==
    IF c = <<>>
    THEN <<>>
    ELSE (IF Missing(Head(c), "id")
          THEN <<>>
          ELSE << [id   |-> Head(c).id,
                   name |-> IF "name" \in DOMAIN Head(c) THEN Head(c).name ELSE None] >>)
         \o WithId(Tail(c))

\* C18: the list find_monitors_for_team returns is exactly the candidates of
\* the winning variant whose id is not null, in their order, each as
\* {id, name}; candidates without an id are dropped, and a variant whose
\* candidates all lack an id counts as empty: the next variant is tried.
C18_ReturnsCandidatesWithId ==
    /\ (pc = "done" /\ result.kind = "return" /\ result.value # None) =>
          LET c == CandidateList(responses[Len(responses)].body)
          IN  /\ WithId(c) # <<>>
              /\ result.value.list = WithId(c)
    /\ \A k \in 1..Len(responses) :
          (Succeeded(responses[k]) /\ WithId(CandidateList(responses[k].body)) = <<>>)
              => Advanced(k)

C18_Witness ==
    /\ pc = "done"
    /\ Len(requests) = 2
    /\ responses[1].body = [monitors |-> JList(<<MonNullId, MonNoId>>)]
    /\ responses[2].body = [monitors |-> JList(<<MonNullId, MonIdZero, MonWithId>>)]
    /\ result = Returned(JList(<<[id |-> JInt(0), name |-> None],
                                 [id |-> JInt(7), name |-> JStr("cpu")]>>))

\* the handle a search query was built with
HandleIn(q) == IF q[5] = ":" THEN SubSeq(q, 6, Len(q)) ELSE SubSeq(q, 7, Len(q))

LookupFailed == lookup.kind = "answer" /\ ~Succeeded(lookup.answer)

\* C19: in every run of find_monitors_for_team the team lookup is requested
\* exactly once and before any search request, all the variants requested carry
\* the same handle, and when the lookup call fails the failure leaves the
\* function with no search request issued.
C19_OneLookupBeforeAnySearch ==
    /\ Len(lookup_requests) <= 1
    /\ pc # "resolve" => Len(lookup_requests) = 1
    /\ requests # <<>> =>
          /\ Len(lookup_requests) = 1
          /\ lookup.kind = "answer" /\ Succeeded(lookup.answer)
          /\ \A k \in 1..Len(requests) : requests[k] = ProbeOrder(HandleIn(requests[1]))[k]
    /\ LookupFailed =>
          /\ requests = <<>>
          /\ pc = "done"
          /\ result.kind = "raise"
          /\ result.value.exc \in {"HTTPError", "ConnectionError"}

C19_Witness ==
    /\ LookupFailed
    /\ lookup.answer.net = "ok" /\ lookup.answer.status = 403
    /\ Len(lookup_requests) = 1
    /\ requests = <<>>
    /\ pc = "done"
    /\ result.kind = "raise"

====
